---- MODULE Spec2Model ----
(***************************************************************************)
(* A model of gypstats: goldprice.py (fetch and cache metal prices in      *)
(* SQLite), plot.py (join the gold and silver tables, derive the PLN       *)
(* prices, write the gsp table) and update.py (the daily driver).          *)
(*                                                                         *)
(* Dates are day ordinals.  A date string is a pair <<kind, day>>: kind    *)
(* "ok" is a well-formed YYYY-MM-DD string, "bad" a malformed one, ""      *)
(* the empty string.  REAL values are exact rationals <<num, den>> in      *)
(* lowest terms; SQL NULL and Python None are <<0, 0>>.                    *)
(***************************************************************************)
EXTENDS Integers, Sequences, FiniteSets, TLC

\* ------------------------------------------------------------------ bounds
\* Stored dates range over 1..MaxDate.
MaxDate == 2

Dates == 1..MaxDate

\* ------------------------------------------------------------ real values
Null == <<0, 0>>

IsNull(x) == x[2] = 0

RECURSIVE GCD(_, _)
GCD(a, b) == IF b = 0 THEN a ELSE GCD(b, a % b)

Rat(n, d) == IF d = 0 THEN Null ELSE <<n \div GCD(n, d), d \div GCD(n, d)>>

Num(n) == <<n, 1>>

IsZero(x) == x[2] # 0 /\ x[1] = 0

\* Python truthiness of a number or None: None and 0 are false.
Truthy(x) == ~IsNull(x) /\ ~IsZero(x)

RMul(x, y) == Rat(x[1] * y[1], x[2] * y[2])

\* x / y for a non-zero y.
RDiv(x, y) == Rat(x[1] * y[2], x[2] * y[1])

\* SQLite's x / y: NULL when y is 0 or an operand is NULL.
SqlDiv(x, y) == IF IsNull(x) \/ IsNull(y) \/ IsZero(y) THEN Null ELSE RDiv(x, y)

\* ------------------------------------------------------------ date strings
DateStr(day) == <<"ok", day>>

EmptyStr == <<"", 0>>

BadStr == <<"bad", 0>>

\* datetime.strptime(s, "%Y-%m-%d") raises ValueError unless s is well formed.
ParseFails(s) == s[1] # "ok"

parse_date(s) == s[2]

strftime(day) == DateStr(day)

\* str.upper() on the currency codes in use.
Upper(s) ==
    CASE s = "usd" -> "USD"
      [] s = "xau" -> "XAU"
      [] OTHER -> s

\* ------------------------------------------------------------ goldprice.py
VARIABLES
    goldDb,     \* rows of goldprice.db's metal_prices
    pair,       \* the (base, symbol) this installation is run with
    pc,         \* goldprice.py: "idle", "range", "single", "done", "exit"
    args,       \* the parsed command line of the current run
    API_KEY,    \* the module global, "" until main sets it
    cur,        \* the range loop's cursor
    calls,      \* dates fetch_one was called with in this run, in order
    last,       \* what the last fetch_one call did
    exit_code   \* the status of the last sys.exit, 0 if none

goldVars == <<goldDb, pair, pc, args, API_KEY, cur, calls, last, exit_code>>

goldRest == <<pair, pc, args, API_KEY, cur, calls, last, exit_code>>

source == "metalpriceapi"

Pairs == {<<"USD", "XAU">>, <<"XAU", "USD">>, <<"usd", "xau">>, <<"USD", "XAG">>}

Key(row) == <<row.date, row.base, row.symbol, row.source>>

\* The API's answers for a request of `symbol`.  "rates" maps a key, a
\* sequence of name parts (<<"XAU">>, or <<"USD", "XAU">> for "USDXAU"), to
\* a number or null.
NoRates == [k \in {} |-> Null]

Responses(symbol) ==
    { [success |-> "false", rates |-> NoRates],
      [success |-> "false", rates |-> (<<symbol>> :> Num(2))],
      [success |-> "true", rates |-> NoRates],
      [success |-> "true", rates |-> (<<symbol>> :> Null)],
      [success |-> "true", rates |-> (<<symbol>> :> Num(0))],
      [success |-> "true", rates |-> (<<symbol>> :> Num(2))],
      [success |-> "absent", rates |-> (<<"USD", symbol>> :> Num(4))] }

\* The success field never consulted.
NotSuccessIgnored(data) == FALSE

\* data.get("success", True) is falsy.
NotSuccess(data) == data.success = "false"

extract_rate(data, symbol) ==
    IF <<symbol>> \in DOMAIN data.rates THEN data.rates[<<symbol>>]
    ELSE IF <<"USD", symbol>> \in DOMAIN data.rates THEN data.rates[<<"USD", symbol>>]
    ELSE Null

\* The UPDATE of fill_missing_xauusd, row by row.
FillRow(row) ==
    IF IsNull(row.xauusd)
       /\ ((row.base = "USD" /\ row.symbol = "XAU") \/ (row.base = "XAU" /\ row.symbol = "USD"))
    THEN [row EXCEPT !.xauusd =
            IF row.base = "USD" /\ row.symbol = "XAU" /\ ~IsNull(row.rate)
            THEN SqlDiv(Num(1), row.rate)
            ELSE IF row.base = "XAU" /\ row.symbol = "USD" /\ ~IsNull(row.rate)
            THEN row.rate
            ELSE row.xauusd]
    ELSE row

fill_missing_xauusd(db) == {FillRow(row) : row \in db}

\* The rows the SELECT of get_cached_price matches.
CachedRows(db, date_str, base, symbol, src) ==
    {row \in db : Key(row) = <<date_str, base, symbol, src>>}

get_cached_price(db, date_str, base, symbol, src) ==
    CachedRows(db, date_str, base, symbol, src)

MkRow(date_str, base, symbol, rate, xauusd, src, raw) ==
    [date |-> date_str, base |-> base, symbol |-> symbol, rate |-> rate,
     xauusd |-> xauusd, source |-> src, raw_json |-> raw]

\* INSERT without the primary key's conflict clause.
InsertNoReplace(db, row) == db \cup {row}

\* INSERT OR REPLACE under PRIMARY KEY (date, base, symbol, source).
InsertOrReplace(db, row) == {r \in db : Key(r) # Key(row)} \cup {row}

insert_price(db, date_str, base, symbol, rate, xauusd, src, raw) ==
    InsertOrReplace(db, MkRow(date_str, base, symbol, rate, xauusd, src, raw))

use_cache_always(a) == TRUE

use_cache(a) == ~a.no_cache

\* fetch_one consults the cache.
CacheConsulted(a) == a.sqlite /\ use_cache(a)

\* xauusd as fetch_one derives it, with the reciprocal taken in both directions.
ComputeXauusdSwapped(base, symbol, rate) ==
    IF Upper(base) = "USD" /\ Upper(symbol) = "XAU" /\ Truthy(rate) THEN RDiv(Num(1), rate)
    ELSE IF Upper(base) = "XAU" /\ Upper(symbol) = "USD" THEN SqlDiv(Num(1), rate)
    ELSE Null

\* xauusd as fetch_one derives it when the cache gave none.
ComputeXauusd(base, symbol, rate) ==
    IF Upper(base) = "USD" /\ Upper(symbol) = "XAU" /\ Truthy(rate) THEN RDiv(Num(1), rate)
    ELSE IF Upper(base) = "XAU" /\ Upper(symbol) = "USD" THEN rate
    ELSE Null

NoData == [success |-> "none", rates |-> NoRates]

\* fetch_one(date_str) on database db with the API answering resp: the
\* database afterwards and what the call did.
fetch_one(db, a, date_str, resp) ==
    LET db1 == IF CacheConsulted(a) THEN fill_missing_xauusd(db) ELSE db
        hit == IF CacheConsulted(a)
               THEN get_cached_price(db1, date_str, a.base, a.symbol, source)
               ELSE {}
        cached == hit # {}
        row == CHOOSE r \in hit : TRUE
        data == IF cached THEN row.raw_json ELSE resp
        rate0 == IF cached THEN row.rate ELSE Null
        xau0 == IF cached THEN row.xauusd ELSE Null
        rate == IF IsNull(rate0) THEN extract_rate(data, a.symbol) ELSE rate0
        xauusd == IF IsNull(xau0) THEN ComputeXauusd(a.base, a.symbol, rate) ELSE xau0
        done == [date |-> date_str, requested |-> ~cached, cached |-> cached,
                 ret |-> FALSE, saved |-> FALSE, data |-> data, rate |-> Null,
                 xauusd |-> Null, opened |-> CacheConsulted(a)]
    IN  IF NotSuccess(data) THEN [db |-> db1, info |-> done]
        ELSE IF IsNull(rate) THEN [db |-> db1, info |-> done]
        ELSE [db |-> IF a.sqlite
                     THEN insert_price(db1, date_str, a.base, a.symbol, rate, xauusd, source, data)
                     ELSE db1,
              info |-> [done EXCEPT !.ret = TRUE, !.saved = a.sqlite,
                                    !.rate = rate, !.xauusd = xauusd,
                                    !.opened = (CacheConsulted(a) \/ a.sqlite)]]

NoArgs ==
    [base |-> "", symbol |-> "", sqlite |-> FALSE, no_cache |-> FALSE,
     start |-> EmptyStr, end |-> EmptyStr, date |-> EmptyStr]

NoCall ==
    [date |-> EmptyStr, requested |-> FALSE, cached |-> FALSE, ret |-> FALSE,
     saved |-> FALSE, data |-> NoData, rate |-> Null, xauusd |-> Null,
     opened |-> FALSE]

\* What the environment variable and the key file hold: <<env, file>>.
KeySources ==
    { <<"k", "MISSING">>, <<"", "k">>, <<"", "MISSING">>, <<"", "">>,
      <<"", "PASTE_API_KEY_HERE">>, <<"PASTE_API_KEY_HERE", "k">> }

DateArgs == {DateStr(d) : d \in Dates} \cup {BadStr}

\* The command lines: a range, or a single date with at most --start given.
CommandLines ==
    { [base |-> pair[1], symbol |-> pair[2], sqlite |-> sq, no_cache |-> nc,
       start |-> s, end |-> e, date |-> d] :
        sq \in BOOLEAN, nc \in BOOLEAN,
        s \in DateArgs, e \in DateArgs, d \in {DateStr(1), BadStr} }
    \cup
    { [base |-> pair[1], symbol |-> pair[2], sqlite |-> sq, no_cache |-> nc,
       start |-> s, end |-> EmptyStr, date |-> d] :
        sq \in BOOLEAN, nc \in BOOLEAN,
        s \in {EmptyStr, DateStr(1)}, d \in DateArgs }

\* args.start and args.end
RangeMode(a) == a.start # EmptyStr /\ a.end # EmptyStr

\* The key main ends with: the environment's, else the file's.
LoadedKey(ks) == IF ks[1] # "" THEN ks[1] ELSE ks[2]

KeyRejected(ks) ==
    \/ (ks[1] = "" /\ ks[2] = "MISSING")
    \/ LoadedKey(ks) = ""
    \/ LoadedKey(ks) = "PASTE_API_KEY_HERE"

DatesRejected(a) ==
    IF RangeMode(a) THEN ParseFails(a.start) \/ ParseFails(a.end)
    ELSE ParseFails(a.date)

RangeRejected(a) == RangeMode(a) /\ parse_date(a.end) < parse_date(a.start)

\* sys.exit(2) of a main that connects to the database on start-up.
Exit2AfterConnect ==
    /\ pc' = "exit"
    /\ exit_code' = 2
    /\ args' = NoArgs
    /\ last' = [NoCall EXCEPT !.opened = TRUE]
    /\ UNCHANGED <<goldDb, pair, API_KEY, cur, calls>>

\* sys.exit(2) before the key is set.
Exit2 ==
    /\ pc' = "exit"
    /\ exit_code' = 2
    /\ args' = NoArgs
    /\ UNCHANGED <<goldDb, pair, API_KEY, cur, calls, last>>

\* main up to the first fetch_one: parse, load the key, validate the dates.
Main(a, ks) ==
    /\ pc = "idle"
    /\ IF KeyRejected(ks) THEN Exit2
       ELSE IF DatesRejected(a) \/ RangeRejected(a)
       THEN /\ pc' = "exit"
            /\ exit_code' = 2
            /\ args' = NoArgs
            /\ API_KEY' = LoadedKey(ks)
            /\ UNCHANGED <<goldDb, pair, cur, calls, last>>
       ELSE /\ pc' = IF RangeMode(a) THEN "range" ELSE "single"
            /\ args' = a
            /\ API_KEY' = LoadedKey(ks)
            /\ cur' = IF RangeMode(a) THEN parse_date(a.start) ELSE 0
            /\ calls' = <<>>
            /\ last' = NoCall
            /\ exit_code' = 0
            /\ UNCHANGED <<goldDb, pair>>

\* The loop's condition with the end date left out.
LoopContinuesExclusive(c, end_dt) == c < end_dt

\* while cur <= end_dt
LoopContinues(c, end_dt) == c <= end_dt

\* One iteration of the range loop.
RangeStep(resp) ==
    /\ pc = "range"
    /\ LoopContinues(cur, parse_date(args.end))
    /\ LET r == fetch_one(goldDb, args, strftime(cur), resp)
       IN  /\ goldDb' = r.db
           /\ last' = r.info
           /\ calls' = Append(calls, strftime(cur))
    /\ cur' = cur + 1
    /\ UNCHANGED <<pair, pc, args, API_KEY, exit_code>>

\* The loop ends and main returns.
RangeExit ==
    /\ pc = "range"
    /\ ~LoopContinues(cur, parse_date(args.end))
    /\ pc' = "done"
    /\ UNCHANGED <<goldDb, pair, args, API_KEY, cur, calls, last, exit_code>>

\* fetch_one(args.date), and main returns.
SingleStep(resp) ==
    /\ pc = "single"
    /\ LET r == fetch_one(goldDb, args, args.date, resp)
       IN  /\ goldDb' = r.db
           /\ last' = r.info
           /\ calls' = Append(calls, args.date)
    /\ pc' = "done"
    /\ UNCHANGED <<pair, args, API_KEY, cur, exit_code>>

\* The process ends; the next run starts from the database alone.
ProcessEnd ==
    /\ pc \in {"done", "exit"}
    /\ pc' = "idle"
    /\ args' = NoArgs
    /\ API_KEY' = ""
    /\ cur' = 0
    /\ calls' = <<>>
    /\ last' = NoCall
    /\ exit_code' = 0
    /\ UNCHANGED <<goldDb, pair>>

GoldInit ==
    /\ goldDb = {}
    /\ pair \in Pairs
    /\ pc = "idle"
    /\ args = NoArgs
    /\ API_KEY = ""
    /\ cur = 0
    /\ calls = <<>>
    /\ last = NoCall
    /\ exit_code = 0

GoldNext ==
    \/ \E a \in CommandLines, ks \in KeySources : Main(a, ks)
    \/ \E resp \in Responses(args.symbol) : RangeStep(resp)
    \/ RangeExit
    \/ \E resp \in Responses(args.symbol) : SingleStep(resp)
    \/ ProcessEnd

\* ------------------------------------------------- insert_price, directly
VARIABLES
    inserted    \* the rows insert_price was called with, in order

\* Calls of insert_price in one behaviour.
MaxInserts == 3

\* The argument lists of the direct calls: (date, base, symbol, source) over
\* two request directions and two sources, with two values each.
InsertArgs ==
    { MkRow(DateStr(d), k[1], k[2], v[1], v[2], k[3], v[3]) :
        d \in Dates,
        k \in { <<"USD", "XAU", "metalpriceapi">>, <<"XAU", "USD", "metalpriceapi">>,
                <<"USD", "XAU", "manual">> },
        v \in { <<Num(2), <<1, 2>>, [success |-> "true", rates |-> (<<"XAU">> :> Num(2))]>>,
                <<Num(4), Null, [success |-> "absent", rates |-> (<<"USD", "XAU">> :> Num(4))]>> } }

\* insert_price(db_path, date_str, base, symbol, rate, xauusd, source, raw, verbose)
InsertPrice(row) ==
    /\ Len(inserted) < MaxInserts
    /\ goldDb' = insert_price(goldDb, row.date, row.base, row.symbol, row.rate,
                              row.xauusd, row.source, row.raw_json)
    /\ inserted' = Append(inserted, row)

\* ------------------------------------------------------------------ plot.py
VARIABLES
    silverDb,   \* rows of silverprice.db's metal_prices
    joined,     \* what load_joined_series returned, and whether it ran
    gsp,        \* rows of GSPLN.db's gsp
    plotPc,     \* write_gspln_db: "idle" or "written"
    series,     \* the (date, xauusd, xagusd) entries of the current run
    nbp,        \* the days NBP has a USD/PLN fixing for, in the current run
    fxlog,      \* the fetch_usdpln calls of the current run, in order
    written     \* the rows the current run handed to executemany, in order

plotVars == <<silverDb, joined, gsp, plotPc, series, nbp, fxlog, written>>

\* for _ in range(7)
FallbackDays == 7

\* The mid rate NBP publishes for a day that has a fixing.
NbpRate(day) == Num(4)

InCache(cache, date_str) == date_str \in DOMAIN cache

\* fetch_usdpln(date_str, cache) while NBP has fixings for the days in fix:
\* the rate or None, the cache afterwards, whether a request was sent.
fetch_usdpln(date_str, cache, fix) ==
    IF InCache(cache, date_str)
    THEN [rate |-> cache[date_str], cache |-> cache, http |-> FALSE]
    ELSE LET rate == IF parse_date(date_str) \in fix
                     THEN NbpRate(parse_date(date_str)) ELSE Null
         IN  [rate |-> rate, cache |-> cache @@ (date_str :> rate), http |-> TRUE]

LogEntry(i, date_str, f) == [idx |-> i, date |-> date_str, http |-> f.http, rate |-> f.rate]

\* The fallback loop that goes on after a fixing was found.
FoundNever(rate) == FALSE

\* if usdpln is not None: break
Found(rate) == ~IsNull(rate)

\* The fallback loop from its k-th pass on, for entry i of date day.
RECURSIVE FallBack(_, _, _, _, _)
FallBack(i, day, k, st, fix) ==
    IF k > FallbackDays THEN st
    ELSE LET ds == strftime(day - k)
             f == fetch_usdpln(ds, st.cache, fix)
             st1 == [rate |-> f.rate, cache |-> f.cache,
                     log |-> Append(st.log, LogEntry(i, ds, f))]
         IN  IF Found(f.rate) THEN st1 ELSE FallBack(i, day, k + 1, st1, fix)

\* usdpln for entry i of date d: the day itself, then up to 7 days back.
LookupUsdpln(i, d, cache, log, fix) ==
    LET f == fetch_usdpln(d, cache, fix)
        st == [rate |-> f.rate, cache |-> f.cache, log |-> Append(log, LogEntry(i, d, f))]
    IN  IF IsNull(f.rate) THEN FallBack(i, parse_date(d), 1, st, fix) ELSE st

NoFx == [usdpln |-> Null, xaupln |-> Null, xagpln |-> Null]

\* existing.get(d, (None, None, None))
ExistingFx(existing, d) ==
    IF \E r \in existing : r.date = d
    THEN LET r == CHOOSE r \in existing : r.date = d
         IN  [usdpln |-> r.usdpln, xaupln |-> r.xaupln, xagpln |-> r.xagpln]
    ELSE NoFx

\* The test that lets a division by zero through.
NonZeroAlways(s) == TRUE

\* if s:
NonZero(s) == Truthy(s)

NeedsFx(fx) == IsNull(fx.usdpln) \/ IsNull(fx.xaupln) \/ IsNull(fx.xagpln)

\* g / s, failing (None) on a zero s as Python's ZeroDivisionError.
PyDiv(g, s) == IF IsZero(s) THEN Null ELSE RDiv(g, s)

GspRow(d, g, s, fx) ==
    [date |-> d, xauusd |-> g, xagusd |-> s, gsr |-> PyDiv(g, s),
     usdpln |-> fx.usdpln, xaupln |-> fx.xaupln, xagpln |-> fx.xagpln]

\* One pass of the loop over zip(dates, xauusd, xagusd), for entry i.
LoopBody(i, e, existing, st, fix) ==
    IF NonZero(e.xagusd)
    THEN LET fx0 == ExistingFx(existing, e.date)
         IN  IF NeedsFx(fx0)
             THEN LET l == LookupUsdpln(i, e.date, st.cache, st.log, fix)
                      fx == IF ~IsNull(l.rate)
                            THEN [usdpln |-> l.rate, xaupln |-> RMul(e.xauusd, l.rate),
                                  xagpln |-> RMul(e.xagusd, l.rate)]
                            ELSE NoFx
                  IN  [cache |-> l.cache, log |-> l.log,
                       rows |-> Append(st.rows, GspRow(e.date, e.xauusd, e.xagusd, fx))]
             ELSE [st EXCEPT !.rows = Append(st.rows, GspRow(e.date, e.xauusd, e.xagusd, fx0))]
    ELSE st

RECURSIVE Loop(_, _, _, _, _)
Loop(i, in, existing, st, fix) ==
    IF i > Len(in) THEN st
    ELSE Loop(i + 1, in, existing, LoopBody(i, in[i], existing, st, fix), fix)

\* INSERT OR REPLACE under gsp's PRIMARY KEY (date).
GspReplace(db, row) == {r \in db : r.date # row.date} \cup {row}

\* executemany over rows from the i-th on.
RECURSIVE ExecuteMany(_, _, _)
ExecuteMany(db, rows, i) ==
    IF i > Len(rows) THEN db ELSE ExecuteMany(GspReplace(db, rows[i]), rows, i + 1)

\* write_gspln_db(db_path, dates, xauusd, xagusd): the table afterwards, the
\* rows written and the fetch_usdpln calls made.
write_gspln_db(db, in, fix) ==
    LET st == Loop(1, in, db, [cache |-> <<>>, log |-> <<>>, rows |-> <<>>], fix)
    IN  [gsp |-> ExecuteMany(db, st.rows, 1), rows |-> st.rows, log |-> st.log]

Entry(d, g, s) == [date |-> DateStr(d), xauusd |-> g, xagusd |-> s]

\* The values a joined entry carries: (xauusd, xagusd).
EntryValues == {<<Num(2), Num(2)>>, <<Num(3), Num(2)>>, <<Num(2), Num(0)>>}

\* The joined series handed to write_gspln_db: one entry for each day of a
\* set of days, ascending.
RECURSIVE SeriesOver(_, _)
SeriesOver(days, vals) ==
    IF days = {} THEN <<>>
    ELSE LET d == CHOOSE x \in days : \A y \in days : x <= y
         IN  <<Entry(d, vals[d][1], vals[d][2])>> \o SeriesOver(days \ {d}, vals)

SeriesInputs ==
    UNION { {SeriesOver(days, vals) : vals \in [days -> EntryValues]} :
            days \in (SUBSET Dates) \ {{}} }

\* The days NBP may be asked about.
NbpDays == (1 - FallbackDays - 1)..MaxDate

\* What NBP holds: nothing, or the fixings of every day up to some day.
NbpInputs == {{}} \cup {{y \in NbpDays : y <= x} : x \in NbpDays}

\* plot.py main from load_joined_series on, with the series given.
WriteGspln(in, fix) ==
    /\ plotPc = "idle"
    /\ in # <<>>
    /\ LET w == write_gspln_db(gsp, in, fix)
       IN  /\ gsp' = w.gsp
           /\ written' = w.rows
           /\ fxlog' = w.log
    /\ series' = in
    /\ nbp' = fix
    /\ plotPc' = "written"
    /\ UNCHANGED <<silverDb, joined>>

\* plot.py ends; the next run starts from the gsp table alone.
PlotEnd ==
    /\ plotPc = "written"
    /\ plotPc' = "idle"
    /\ series' = <<>>
    /\ nbp' = {}
    /\ fxlog' = <<>>
    /\ written' = <<>>
    /\ UNCHANGED <<silverDb, joined, gsp>>

\* A row of silverprice.db's metal_prices: goldprice.py's table with the
\* derived column named xagusd.
SilverRow(d, xagusd) ==
    [date |-> DateStr(d), base |-> "USD", symbol |-> "XAG", source |-> source,
     xagusd |-> xagusd]

SilverValues == {Null, Num(0), Num(2)}

\* silverprice.py stores the day's row.
InsertSilver(d, xagusd) ==
    /\ ~joined.loaded
    /\ silverDb' = InsertOrReplace(silverDb, SilverRow(d, xagusd))
    /\ UNCHANGED <<joined, gsp, plotPc, series, nbp, fxlog, written>>

\* FROM gold.metal_prices g JOIN silver.metal_prices s ON s.date = g.date
\* WHERE g.xauusd IS NOT NULL AND s.xagusd IS NOT NULL
JoinedPairs(gold, silver) ==
    {p \in gold \X silver :
        p[2].date = p[1].date /\ ~IsNull(p[1].xauusd) /\ ~IsNull(p[2].xagusd)}

\* ORDER BY g.date ASC: every listing of the pairs with the dates ascending;
\* SQL leaves the order of equal dates open.
RECURSIVE OrderedByDate(_)
OrderedByDate(P) ==
    IF P = {} THEN {<<>>}
    ELSE LET firsts == {p \in P : \A q \in P : p[1].date[2] <= q[1].date[2]}
         IN  UNION { {<<p>> \o t : t \in OrderedByDate(P \ {p})} : p \in firsts }

\* SELECT g.date, g.xauusd, s.xagusd
Selected(ps) ==
    [i \in 1..Len(ps) |->
        [date |-> ps[i][1].date, xauusd |-> ps[i][1].xauusd, xagusd |-> ps[i][2].xagusd]]

\* The results load_joined_series may return.
load_joined_series(gold, silver) ==
    {Selected(ps) : ps \in OrderedByDate(JoinedPairs(gold, silver))}

LoadJoined ==
    /\ ~joined.loaded
    /\ \E rows \in load_joined_series(goldDb, silverDb) :
          joined' = [loaded |-> TRUE, rows |-> rows]
    /\ UNCHANGED <<silverDb, gsp, plotPc, series, nbp, fxlog, written>>

PlotInit ==
    /\ silverDb = {}
    /\ joined = [loaded |-> FALSE, rows |-> <<>>]
    /\ gsp = {}
    /\ plotPc = "idle"
    /\ series = <<>>
    /\ nbp = {}
    /\ fxlog = <<>>
    /\ written = <<>>

\* ---------------------------------------------------------------- update.py
VARIABLES
    upc,        \* update.py main: <<step, "at">>, or <<step, "wait">> in a child
    yesterday,  \* date.today() - 1 day, a day ordinal
    uGold,      \* goldprice.db as update.py sees it: [exists, max]
    uSilver,    \* silverprice.db likewise
    ulog,       \* the steps started and finished, in order
    gitcmds     \* the git commands run, in order, with their return codes

updVars == <<upc, yesterday, uGold, uSilver, ulog, gitcmds>>

\* MIN_DATE = date(2026, 1, 2), as a day ordinal
MIN_DATE == 1

\* A database file: whether it exists and what SELECT MAX(date) returns (the
\* empty string standing for NULL).
DbViews ==
    {[exists |-> FALSE, max |-> EmptyStr], [exists |-> TRUE, max |-> EmptyStr],
     [exists |-> TRUE, max |-> BadStr]}
    \cup {[exists |-> TRUE, max |-> DateStr(d)] : d \in Dates}

\* get_latest_date(db_path): a day, or 0 for None.
get_latest_date(db) ==
    IF ~db.exists THEN 0
    ELSE IF db.max = EmptyStr THEN 0
    ELSE IF ParseFails(db.max) THEN 0
    ELSE parse_date(db.max)

\* A start that repeats the latest stored date.
StartDateInclusive(latest) == IF latest = 0 THEN MIN_DATE ELSE latest

\* MIN_DATE if not latest else latest + timedelta(days=1)
StartDate(latest) == IF latest = 0 THEN MIN_DATE ELSE latest + 1

ExitStatuses == {0, 1, 2}

\* subprocess.run without check=True.
CheckIgnored(status) == FALSE

\* subprocess.run(cmd, check=True) raises CalledProcessError.
CheckFails(status) == status # 0

At(step) == <<step, "at">>

\* A log entry; cmd holds the --start and --end of a fetch script.
Started(step) == [step |-> step, ev |-> "start", status |-> 0, cmd |-> <<>>]

Ended(step, status) ==
    [step |-> step, ev |-> "end", status |-> status, cmd |-> <<>>]

\* run_range(script_path, start_dt, end_dt): the children launched.
run_range(step, start_dt, end_dt) ==
    IF end_dt < start_dt THEN <<>>
    ELSE <<[Started(step) EXCEPT
               !.cmd = <<strftime(start_dt), strftime(end_dt)>>]>>

\* main up to the gold fetch.
UpdateStart ==
    /\ upc = At("start")
    /\ upc' = IF yesterday < MIN_DATE THEN At("done") ELSE At("gold")
    /\ UNCHANGED <<yesterday, uGold, uSilver, ulog, gitcmds>>

\* What a fetch script may leave as MAX(date) after being run for start..end.
AfterFetch(db, start, end) ==
    {db} \cup {[exists |-> TRUE, max |-> DateStr(d)] : d \in start..end}

\* The fetch step of one metal: run_range is entered, or the step is skipped.
FetchBegin(step, next, db) ==
    /\ upc = At(step)
    /\ LET start == StartDate(get_latest_date(db))
           launched == IF start <= yesterday
                       THEN run_range(step, start, yesterday)
                       ELSE <<>>
       IN  /\ ulog' = ulog \o launched
           /\ upc' = IF launched # <<>> THEN <<step, "wait">> ELSE At(next)
    /\ UNCHANGED <<yesterday, uGold, uSilver, gitcmds>>

\* The child of run_range returns.
FetchEnd(step, next, status) ==
    /\ upc = <<step, "wait">>
    /\ ulog' = Append(ulog, Ended(step, status))
    /\ upc' = IF CheckFails(status) THEN At("failed") ELSE At(next)
    /\ UNCHANGED <<yesterday, gitcmds>>

GoldBegin == FetchBegin("gold", "silver", uGold)

GoldEnd(status, db) ==
    /\ FetchEnd("gold", "silver", status)
    /\ db \in AfterFetch(uGold, StartDate(get_latest_date(uGold)), yesterday)
    /\ uGold' = db
    /\ UNCHANGED uSilver

SilverBegin == FetchBegin("silver", "plot", uSilver)

SilverEnd(status, db) ==
    /\ FetchEnd("silver", "plot", status)
    /\ db \in AfterFetch(uSilver, StartDate(get_latest_date(uSilver)), yesterday)
    /\ uSilver' = db
    /\ UNCHANGED uGold

\* subprocess.run([sys.executable, plot_script], check=True) is entered.
PlotBegin ==
    /\ upc = At("plot")
    /\ upc' = <<"plot", "wait">>
    /\ ulog' = Append(ulog, Started("plot"))
    /\ UNCHANGED <<yesterday, uGold, uSilver, gitcmds>>

PlotReturn(status) ==
    /\ upc = <<"plot", "wait">>
    /\ ulog' = Append(ulog, Ended("plot", status))
    /\ upc' = IF CheckFails(status) THEN At("failed") ELSE At("index")
    /\ UNCHANGED <<yesterday, uGold, uSilver, gitcmds>>

\* update_index_html(here, GSPLN.db)
UpdateIndex ==
    /\ upc = At("index")
    /\ ulog' = ulog \o <<Started("index"), Ended("index", 0)>>
    /\ upc' = At("git")
    /\ UNCHANGED <<yesterday, uGold, uSilver, gitcmds>>

\* git_sync(repo_dir): the commands run and whether one of them raised.
\* has_git: .git is a directory; add, commit, push: exit statuses; diff: the
\* return code of git diff --cached --quiet.
\* Each command is recorded with its return code.
Git(cmd, rc) == [cmd |-> cmd, rc |-> rc]

\* A git_sync that commits whatever git diff --cached --quiet returns.
git_sync_unconditional(has_git, add, diff, commit, push) ==
    IF ~has_git THEN [cmds |-> <<>>, raised |-> FALSE]
    ELSE IF CheckFails(add) THEN [cmds |-> <<Git("add", add)>>, raised |-> TRUE]
    ELSE IF CheckFails(commit)
    THEN [cmds |-> <<Git("add", add), Git("diff", diff), Git("commit", commit)>>,
          raised |-> TRUE]
    ELSE [cmds |-> <<Git("add", add), Git("diff", diff), Git("commit", commit),
                     Git("push", push)>>,
          raised |-> CheckFails(push)]

git_sync(has_git, add, diff, commit, push) ==
    IF ~has_git THEN [cmds |-> <<>>, raised |-> FALSE]
    ELSE IF CheckFails(add) THEN [cmds |-> <<Git("add", add)>>, raised |-> TRUE]
    ELSE IF diff = 0
    THEN [cmds |-> <<Git("add", add), Git("diff", diff)>>, raised |-> FALSE]
    ELSE IF CheckFails(commit)
    THEN [cmds |-> <<Git("add", add), Git("diff", diff), Git("commit", commit)>>,
          raised |-> TRUE]
    ELSE [cmds |-> <<Git("add", add), Git("diff", diff), Git("commit", commit),
                     Git("push", push)>>,
          raised |-> CheckFails(push)]

GitSync(has_git, add, diff, commit, push) ==
    /\ upc = At("git")
    /\ LET g == git_sync(has_git, add, diff, commit, push)
       IN  /\ gitcmds' = g.cmds
           /\ ulog' = ulog \o <<Started("git"), Ended("git", IF g.raised THEN 1 ELSE 0)>>
           /\ upc' = IF g.raised THEN At("failed") ELSE At("done")
    /\ UNCHANGED <<yesterday, uGold, uSilver>>

UpdateInit ==
    /\ upc = At("start")
    /\ yesterday \in 0..(MaxDate + 1)
    /\ uGold \in DbViews
    /\ uSilver \in DbViews
    /\ ulog = <<>>
    /\ gitcmds = <<>>

UpdateIdle ==
    /\ upc = At("start")
    /\ yesterday = 0
    /\ uGold = [exists |-> FALSE, max |-> EmptyStr]
    /\ uSilver = [exists |-> FALSE, max |-> EmptyStr]
    /\ ulog = <<>>
    /\ gitcmds = <<>>

UpdateNext ==
    \/ UpdateStart
    \/ GoldBegin
    \/ \E st \in ExitStatuses, db \in DbViews : GoldEnd(st, db)
    \/ SilverBegin
    \/ \E st \in ExitStatuses, db \in DbViews : SilverEnd(st, db)
    \/ PlotBegin
    \/ \E st \in ExitStatuses : PlotReturn(st)
    \/ UpdateIndex
    \/ \E has_git \in BOOLEAN, add \in {0, 1}, diff \in {0, 1}, commit \in {0, 1},
          push \in {0, 1} : GitSync(has_git, add, diff, commit, push)

\* ------------------------------------------------------- specifications
vars == <<goldVars, inserted, plotVars, updVars>>

\* goldprice.py, run again and again on one database.
Init == GoldInit /\ inserted = <<>> /\ PlotInit /\ UpdateIdle

Next == GoldNext /\ UNCHANGED <<inserted, plotVars, updVars>>

Spec == Init /\ [][Next]_vars

GoldIdle ==
    /\ goldDb = {}
    /\ pair = <<"USD", "XAU">>
    /\ pc = "idle"
    /\ args = NoArgs
    /\ API_KEY = ""
    /\ cur = 0
    /\ calls = <<>>
    /\ last = NoCall
    /\ exit_code = 0

\* insert_price called directly, with any arguments.
InitInsert == GoldIdle /\ inserted = <<>> /\ PlotInit /\ UpdateIdle

NextInsert ==
    \E row \in InsertArgs :
        InsertPrice(row) /\ UNCHANGED <<goldRest, plotVars, updVars>>

SpecInsert == InitInsert /\ [][NextInsert]_vars

\* write_gspln_db, run again and again on one gsp table.
InitGsp == GoldIdle /\ inserted = <<>> /\ PlotInit /\ UpdateIdle

NextGsp ==
    \/ \E in \in SeriesInputs, fix \in NbpInputs :
          WriteGspln(in, fix) /\ UNCHANGED <<goldVars, inserted, updVars>>
    \/ PlotEnd /\ UNCHANGED <<goldVars, inserted, updVars>>

SpecGsp == InitGsp /\ [][NextGsp]_vars

\* The two tables filled by insert_price and silverprice.py, then joined.
InitJoin == GoldIdle /\ inserted = <<>> /\ PlotInit /\ UpdateIdle

NextJoin ==
    \/ \E row \in InsertArgs :
          ~joined.loaded /\ InsertPrice(row) /\ UNCHANGED <<goldRest, plotVars, updVars>>
    \/ \E d \in Dates, x \in SilverValues :
          InsertSilver(d, x) /\ UNCHANGED <<goldVars, inserted, updVars>>
    \/ LoadJoined /\ UNCHANGED <<goldVars, inserted, updVars>>

SpecJoin == InitJoin /\ [][NextJoin]_vars

\* update.py main, once, from any state of the two databases.
InitUpdate == GoldIdle /\ inserted = <<>> /\ PlotInit /\ UpdateInit

NextUpdate == UpdateNext /\ UNCHANGED <<goldVars, inserted, plotVars>>

SpecUpdate == InitUpdate /\ [][NextUpdate]_vars

\* ---------------------------------------------------- claims: insert_price
\* The last call of insert_price for the key of row r was the i-th.
LastForKey(i, r) ==
    /\ Key(inserted[i]) = Key(r)
    /\ \A j \in (i + 1)..Len(inserted) : Key(inserted[j]) # Key(r)

\* C1: after any sequence of insert_price calls the table holds at most one
\* row per key (date, base, symbol, source), that row carries the rate,
\* xauusd and raw_json of the most recent call for the key, and rows of
\* other keys are as their own most recent call left them.
C1_UpsertByKey ==
    /\ \A r1 \in goldDb, r2 \in goldDb : Key(r1) = Key(r2) => r1 = r2
    /\ \A r \in goldDb :
          \E i \in 1..Len(inserted) :
              /\ LastForKey(i, r)
              /\ r.rate = inserted[i].rate
              /\ r.xauusd = inserted[i].xauusd
              /\ r.raw_json = inserted[i].raw_json
    /\ \A i \in 1..Len(inserted) : \E r \in goldDb : Key(r) = Key(inserted[i])

C1_Witness ==
    /\ Len(inserted) = 3
    /\ Key(inserted[1]) = Key(inserted[3])
    /\ inserted[1].rate # inserted[3].rate
    /\ Key(inserted[2]) # Key(inserted[1])
    /\ inserted[2].date = inserted[1].date
    /\ Cardinality(goldDb) = 2

\* ---------------------------------------------------- claims: goldprice.py
\* A step in which fetch_one was called; last' describes the call.
FetchStep == pc \in {"range", "single"} /\ calls' # calls

\* The rows of db under the key fetch_one looks up for date_str.
StoredFor(db, date_str) ==
    {r \in db : r.date = date_str /\ r.base = args.base /\ r.symbol = args.symbol
                /\ r.source = "metalpriceapi"}

\* C2: fetch_one sends an API request for a date if and only if caching is
\* disabled (--no-cache given or --sqlite empty) or metal_prices has no row
\* under (date, base, symbol, 'metalpriceapi'); on a cache hit the stored
\* rate, raw_json and xauusd are the ones used and no request is sent.
C2_RequestIffNoCache ==
    [][FetchStep =>
        /\ last'.requested <=>
              (args.no_cache \/ ~args.sqlite \/ StoredFor(goldDb, last'.date) = {})
        /\ ~last'.requested =>
              \E r \in StoredFor(goldDb, last'.date) :
                  /\ last'.rate = r.rate
                  /\ last'.data = r.raw_json
                  /\ last'.xauusd = r.xauusd]_vars

C2_Witness ==
    /\ last.cached /\ ~last.requested /\ last.ret
    /\ args.sqlite /\ ~args.no_cache

\* 1/rate, rate or NULL by the direction of the request.
ExpectedXauusd(base, symbol, rate) ==
    IF Upper(base) = "USD" /\ Upper(symbol) = "XAU"
    THEN (IF IsZero(rate) THEN Null ELSE <<rate[2], rate[1]>>)
    ELSE IF Upper(base) = "XAU" /\ Upper(symbol) = "USD" THEN rate
    ELSE Null

\* C4: for a price fetched from the API (no cached row) the xauusd that
\* fetch_one stores is 1/rate for USD/XAU with a non-zero rate, the rate
\* itself for XAU/USD, and NULL in every other case.
C4_XauusdDerivation ==
    (last.requested /\ last.ret) =>
        /\ last.xauusd = ExpectedXauusd(args.base, args.symbol, last.rate)
        /\ last.saved =>
              \E r \in StoredFor(goldDb, last.date) :
                  r.rate = last.rate
                  /\ r.xauusd = ExpectedXauusd(args.base, args.symbol, r.rate)

C4_Witness ==
    /\ last.requested /\ last.saved
    /\ args.base = "USD" /\ args.symbol = "XAU"
    /\ last.rate = Num(2) /\ last.xauusd = <<1, 2>>
    /\ \E r \in goldDb : r.date = last.date /\ r.xauusd = <<1, 2>>

\* The dates from..to as date strings, ascending.
DateRange(from, to) == [i \in 1..(to - from + 1) |-> DateStr(from + i - 1)]

\* The API's answer reports failure or holds no rate for the symbol.
FailedResponse(data, symbol) ==
    data.success = "false"
    \/ (<<symbol>> \notin DOMAIN data.rates /\ <<"USD", symbol>> \notin DOMAIN data.rates)
    \/ (<<symbol>> \in DOMAIN data.rates /\ IsNull(data.rates[<<symbol>>]))

\* C9: when the response has success = false or no rate for the symbol,
\* fetch_one writes no row, leaves every existing row unchanged and returns
\* False; in range mode the loop goes on to the next date, and when it ends
\* fetch_one has been called for every date of the range.
C9_FailedFetchWritesNothing ==
    [][/\ (FetchStep /\ last'.requested /\ FailedResponse(last'.data, args.symbol)) =>
            /\ goldDb' = goldDb
            /\ ~last'.ret
            /\ pc = "range" => (pc' = "range" /\ cur' = cur + 1 /\ exit_code' = 0)
       /\ (pc = "range" /\ pc' = "done") =>
            calls = DateRange(parse_date(args.start), parse_date(args.end))]_vars

C9_Witness ==
    /\ pc = "range"
    /\ last.requested /\ ~last.ret /\ last.data.success = "false"
    /\ goldDb # {}
    /\ cur <= parse_date(args.end)

\* C10: with --start and --end given and start <= end, fetch_one is called
\* exactly once for each date from start to end, ascending, the loop ends
\* after the end date, no date outside the range is fetched and --date is
\* ignored.
C10_RangeLoop ==
    (pc \in {"range", "done"} /\ RangeMode(args)) =>
        /\ parse_date(args.start) <= cur /\ cur <= parse_date(args.end) + 1
        /\ calls = DateRange(parse_date(args.start), cur - 1)
        /\ pc = "done" => cur = parse_date(args.end) + 1

C10_Witness ==
    /\ pc = "done" /\ RangeMode(args)
    /\ args.date = BadStr
    /\ calls = <<DateStr(1), DateStr(2)>>
\* C11: whenever goldprice.py exits with status 2 (API key missing, empty
\* or the placeholder; a malformed date; --end before --start) no API
\* request has been sent and the database has been neither opened nor
\* modified in that run.
C11_Exit2TouchesNothing ==
    [][(pc' = "exit" /\ exit_code' = 2) =>
        /\ pc = "idle"
        /\ goldDb' = goldDb
        /\ calls' = <<>>
        /\ ~last'.requested
        /\ ~last'.opened
        /\ ~last'.saved]_vars

C11_Witness ==
    /\ pc = "exit" /\ exit_code = 2
    /\ API_KEY = "k"
    /\ goldDb # {}
    /\ calls = <<>> /\ ~last.opened

\* ------------------------------------------------------- claims: plot.py
\* A step in which write_gspln_db ran: gsp is the table it found.
WriteStep == plotPc = "idle" /\ plotPc' = "written"

\* The fetch_usdpln calls a log holds for entry i.
CallsFor(log, i) ==
    LET IsEntryOf(e) == e.idx = i
    IN  SelectSeq(log, IsEntryOf)

\* Table db holds no complete FX triple for date d.
LacksFx(db, d) ==
    ~\E r \in db : r.date = d /\ ~IsNull(r.usdpln) /\ ~IsNull(r.xaupln) /\ ~IsNull(r.xagpln)

\* How many days before `day` the first day with a fixing lies, within the
\* window of 8 days; -1 if the window has none.
FirstFixing(day, fix) ==
    LET ks == {k \in 0..7 : (day - k) \in fix}
    IN  IF ks = {} THEN -1 ELSE CHOOSE k \in ks : \A j \in ks : k <= j

\* C3: for a date d that needs an FX rate, the fixing is asked for d first
\* and then, only while none has been found, for d-1, ..., d-7 in that order;
\* the usdpln stored for d is the fixing of the first of these dates that
\* has one, no date before d-7 is asked for, and if none of the 8 dates has a
\* fixing the row is still written, with usdpln, xaupln and xagpln NULL.
C3_FixingFallback ==
    [][WriteStep =>
        \A i \in 1..Len(series') :
            LET e == series'[i]
                day == e.date[2]
                c == CallsFor(fxlog', i)
                k == FirstFixing(day, nbp')
            IN  IF ~IsZero(e.xagusd) /\ LacksFx(gsp, e.date)
                THEN /\ Len(c) = (IF k < 0 THEN 8 ELSE k + 1)
                     /\ \A j \in 1..Len(c) : c[j].date = <<"ok", day - (j - 1)>>
                     /\ \A j \in 1..(Len(c) - 1) : IsNull(c[j].rate)
                     /\ \E r \in gsp' :
                          /\ r.date = e.date
                          /\ r.usdpln = (IF k < 0 THEN Null ELSE NbpRate(day - k))
                          /\ r.usdpln = c[Len(c)].rate
                          /\ k < 0 => (IsNull(r.xaupln) /\ IsNull(r.xagpln))
                ELSE c = <<>>]_vars

C3_Witness ==
    /\ plotPc = "written"
    /\ \E i \in 1..Len(series) :
          /\ Len(CallsFor(fxlog, i)) = 8
          /\ \E r \in gsp : r.date = series[i].date /\ IsNull(r.usdpln) /\ IsNull(r.xaupln)
    /\ \E j \in 1..Len(fxlog) : ~fxlog[j].http

\* C5: after any sequence of write_gspln_db runs, every gsp row with a
\* non-NULL usdpln has xaupln = xauusd * usdpln and xagpln = xagusd * usdpln
\* for the xauusd and xagusd of that same row.
C5_PlnConsistent ==
    \A r \in gsp :
        ~IsNull(r.usdpln) =>
            /\ r.xaupln = <<r.xauusd[1] * r.usdpln[1], 1>>
            /\ r.xagpln = <<r.xagusd[1] * r.usdpln[1], 1>>

IsNonZeroEntry(e) == ~IsZero(e.xagusd)

\* C6: every row write_gspln_db writes has xagusd # 0 and gsr = xauusd /
\* xagusd; an input date whose xagusd is 0 yields no row and no division.
C6_GsrDefined ==
    /\ \A r \in gsp \cup {written[i] : i \in 1..Len(written)} :
          /\ ~IsZero(r.xagusd)
          /\ ~IsNull(r.gsr)
          /\ r.gsr[1] * r.xagusd[1] * r.xauusd[2] = r.xauusd[1] * r.gsr[2] * r.xagusd[2]
    /\ plotPc = "written" =>
          LET nz == SelectSeq(series, IsNonZeroEntry)
          IN  /\ Len(written) = Len(nz)
              /\ \A i \in 1..Len(nz) : written[i].date = nz[i].date

C6_Witness ==
    /\ plotPc = "written"
    /\ \E i \in 1..Len(series) : IsZero(series[i].xagusd)
    /\ \E i \in 1..Len(written) : written[i].gsr = <<3, 2>>
\* How many entries of a series carry date d.
CountDate(rows, d) == Cardinality({i \in 1..Len(rows) : rows[i].date = d})

\* C7: load_joined_series returns exactly one entry for each date on which
\* the gold table has a non-NULL xauusd and the silver table a non-NULL
\* xagusd, none for any other date, in strictly ascending date order.
C7_OneEntryPerDate ==
    joined.loaded =>
        /\ \A d \in Dates :
              CountDate(joined.rows, DateStr(d)) =
                 (IF (\E g \in goldDb : g.date = DateStr(d) /\ ~IsNull(g.xauusd))
                     /\ (\E x \in silverDb : x.date = DateStr(d) /\ ~IsNull(x.xagusd))
                  THEN 1 ELSE 0)
        /\ \A i \in 1..(Len(joined.rows) - 1) :
              joined.rows[i].date[2] < joined.rows[i + 1].date[2]

\* ----------------------------------------------------- claims: update.py
StepNo(step) ==
    CASE step = "gold" -> 1
      [] step = "silver" -> 2
      [] step = "plot" -> 3
      [] step = "index" -> 4
      [] step = "git" -> 5

\* C8: main runs gold fetch, silver fetch, plot.py, the index.html update
\* and git sync in that order, each starting only after the previous one
\* has finished; once a child script has exited non-zero no later step
\* runs, and no git command is run.
C8_SequentialSteps ==
    /\ \A i \in 1..Len(ulog) :
          /\ ulog[i].ev = (IF i % 2 = 1 THEN "start" ELSE "end")
          /\ (i % 2 = 0) => ulog[i].step = ulog[i - 1].step
          /\ (i % 2 = 1 /\ i > 1) => StepNo(ulog[i - 2].step) < StepNo(ulog[i].step)
    /\ \A i \in 1..Len(ulog) :
          (ulog[i].ev = "end" /\ ulog[i].status # 0) =>
              (i = Len(ulog) /\ (ulog[i].step # "git" => gitcmds = <<>>))
    /\ upc = At("done") /\ yesterday >= MIN_DATE =>
          /\ \E i \in 1..Len(ulog) : ulog[i].step = "plot"
          /\ \E i \in 1..Len(ulog) : ulog[i].step = "index"
          /\ ulog[Len(ulog)].step = "git"

C8_Witness ==
    /\ upc = At("failed")
    /\ Len(ulog) = 4
    /\ ulog[2] = Ended("gold", 0)
    /\ ulog[4] = Ended("silver", 2)
    /\ gitcmds = <<>>
Metals == {"gold", "silver"}

DbOf(m) == IF m = "gold" THEN uGold ELSE uSilver

Unusable(db) == ~db.exists \/ db.max = EmptyStr \/ ParseFails(db.max)

ExpectedStart(db) == IF Unusable(db) THEN MIN_DATE ELSE parse_date(db.max) + 1

RequestedDates(e) == parse_date(e.cmd[1])..parse_date(e.cmd[2])

\* C12: for each metal update.py requests exactly the range [start,
\* yesterday], start being MIN_DATE when the database file is missing, has
\* no rows or its MAX(date) does not parse, and the latest stored date plus
\* one day otherwise; no requested date is later than yesterday or at or
\* before the latest stored date, and no fetch script is launched when
\* start > yesterday.
C12_RequestedRange ==
    [][\A m \in Metals : upc = At(m) =>
          LET db == DbOf(m)
              start == ExpectedStart(db)
          IN  IF start > yesterday
              THEN ulog' = ulog /\ upc'[2] = "at"
              ELSE /\ Len(ulog') = Len(ulog) + 1
                   /\ SubSeq(ulog', 1, Len(ulog)) = ulog
                   /\ upc' = <<m, "wait">>
                   /\ LET e == ulog'[Len(ulog')]
                      IN  /\ e.step = m /\ e.ev = "start"
                          /\ e.cmd = <<DateStr(start), DateStr(yesterday)>>
                          /\ RequestedDates(e) = start..yesterday
                          /\ \A d \in RequestedDates(e) :
                                /\ d <= yesterday
                                /\ ~Unusable(db) => d > parse_date(db.max)]_vars

C12_Witness ==
    /\ upc = <<"silver", "wait">>
    /\ yesterday = 3
    /\ uGold.max = DateStr(2) /\ uSilver.max = BadStr
    /\ Len(ulog) = 3
    /\ ulog[1].cmd = <<DateStr(3), DateStr(3)>>
    /\ ulog[3].step = "silver"
    /\ ulog[3].cmd = <<DateStr(MIN_DATE), DateStr(3)>>
Ran(cmds, cmd) == {i \in 1..Len(cmds) : cmds[i].cmd = cmd}

GitInputs == BOOLEAN \X {0, 1} \X {0, 1} \X {0, 1} \X {0, 1}

\* C13: git_sync runs git commit only when the staged set differs from HEAD
\* (git diff --cached --quiet returned non-zero), and git push only after
\* that commit has succeeded; with no staged changes, or without a .git
\* directory, neither commit nor push is run.
C13_CommitThenPush ==
    [][\A inp \in GitInputs :
          GitSync(inp[1], inp[2], inp[3], inp[4], inp[5]) =>
              LET has_git == inp[1]
                  diff == inp[3]
                  cmds == gitcmds'
              IN  /\ \A i \in Ran(cmds, "commit") :
                        /\ has_git
                        /\ i = 3
                        /\ cmds[1] = Git("add", 0)
                        /\ cmds[2] = Git("diff", diff) /\ diff # 0
                  /\ \A i \in Ran(cmds, "push") :
                        /\ i = Len(cmds)
                        /\ cmds[i - 1] = Git("commit", 0)
                  /\ (~has_git \/ diff = 0) =>
                        Ran(cmds, "commit") = {} /\ Ran(cmds, "push") = {}
                  /\ ~has_git => cmds = <<>>
                  /\ Cardinality(Ran(cmds, "commit")) <= 1
                  /\ Cardinality(Ran(cmds, "push")) <= 1]_vars

C13_Witness ==
    /\ upc = At("done")
    /\ gitcmds = <<Git("add", 0), Git("diff", 1), Git("commit", 0), Git("push", 0)>>
====
